---- MODULE Spec2Model ----
(***************************************************************************)
(* Model of sqladmin/rediscli.py: RedisCLIView, the admin console that     *)
(* builds a command table from a store connection (__init__,               *)
(* _inspect_commands, _contribute_commands) and serves GET/POST requests   *)
(* (index_page, _parse_cmd, _execute_command, _cmd_help, the three hooks). *)
(*                                                                         *)
(* Text is modelled as a sequence of atoms: an atom is a run of ordinary   *)
(* characters (a TLA+ string), a blank (SP) or a double quote (DQ).        *)
(* Python str values that the code only concatenates are TLA+ strings.    *)
(***************************************************************************)
EXTENDS Integers, Sequences, FiniteSets, TLC

VARIABLES
    redis,              \* the class attribute `redis`: the store connection
    remapped_commands,  \* the class attribute: ordered <<alias, canonical>> pairs
    excluded_commands,  \* the class attribute: set of names
    denied,             \* names the overriding can_use_command refuses ({} = default)
    commands,           \* self.commands: name -> [handler, doc]
    pc,                 \* "new" | "failed" | "idle" | "arrived" | "done"
    init_error,         \* the exception __init__ raised, or NoExc
    request,            \* the request being served
    log,                \* the hook and operation calls made while serving it
    caught,             \* the exception index_page caught while serving it
    response            \* what index_page returned for it

vars == <<redis, remapped_commands, excluded_commands, denied, commands, pc,
          init_error, request, log, caught, response>>

-----------------------------------------------------------------------------
(* Bounds and alphabets *)

\* Most tokens of a submitted command line.
MaxTokens == 3

SP == " "
DQ == "\""

\* The words a command line is made of: an alias, its canonical name, the
\* built-in, a key that is no command, and a non-callable member's name.
Words == {"del", "delete", "help", "k1", "connection_pool"}

\* Code points of every name that dir(redis) or the command table can hold.
Codes ==
     ("delete" :> <<100, 101, 108, 101, 116, 101>>)
  @@ ("get" :> <<103, 101, 116>>)
  @@ ("pubsub" :> <<112, 117, 98, 115, 117, 98>>)
  @@ ("connection_pool" :> <<99, 111, 110, 110, 101, 99, 116, 105, 111, 110, 95, 112, 111, 111, 108>>)
  @@ ("_lock" :> <<95, 108, 111, 99, 107>>)
  @@ ("help" :> <<104, 101, 108, 112>>)
  @@ ("del" :> <<100, 101, 108>>)
  @@ ("rm" :> <<114, 109>>)
  @@ ("h" :> <<104>>)

Underscore == 95

-----------------------------------------------------------------------------
(* Python values *)

Exc(cls, arg) == [cls |-> cls, arg |-> arg]
NoExc == Exc("None", "")

\* str(e): the exception's argument, except that KeyError gives its repr.
Str(e) == IF e.cls = "KeyError" THEN "'" \o e.arg \o "'" ELSE e.arg

Value(type_name, value) == [type_name |-> type_name, value |-> value]
NoValue == Value("NoneType", <<>>)

TextWrapper(text) == Value("TextWrapper", text)

\* An attribute of the store connection.
Attr(callable, has_doc, doc, type_name) ==
    [callable |-> callable, has_doc |-> has_doc, doc |-> doc, type_name |-> type_name]

BaseStore ==
     ("delete" :> Attr(TRUE, TRUE, <<SP, "Delete one or more keys specified by names", SP>>, "method"))
  @@ ("get" :> Attr(TRUE, TRUE, <<"Return the value at key name">>, "method"))
  @@ ("pubsub" :> Attr(TRUE, FALSE, <<>>, "method"))
  @@ ("connection_pool" :> Attr(FALSE, TRUE, <<"Create a connection pool">>, "ConnectionPool"))
  @@ ("_lock" :> Attr(FALSE, FALSE, <<>>, "NoneType"))

\* A store connection that has a public member named like the built-in.
HelpStore == BaseStore @@ ("help" :> Attr(TRUE, TRUE, <<"Store help">>, "method"))

Stores ==
    { [provided |-> FALSE, attrs |-> <<>>],
      [provided |-> TRUE, attrs |-> BaseStore],
      [provided |-> TRUE, attrs |-> HelpStore] }

DefaultRemap == << <<"del", "delete">> >>

RemapTables ==
    { <<>>,
      DefaultRemap,
      << <<"del", "unlink">> >>,
      << <<"h", "help">> >>,
      << <<"del", "delete">>, <<"delete", "get">> >>,
      << <<"rm", "delete">>, <<"del", "rm">> >> }

DefaultExcluded == {"pubsub", "set_response_callback", "from_url"}

ExclusionSets == { DefaultExcluded, {"pubsub", "connection_pool"} }

DeniedSets == { {}, {"delete"} }

\* dict.get(name) and `name in dict` on the ordered remap table.
RemapKeys == { remapped_commands[i][1] : i \in DOMAIN remapped_commands }
RemapGet(name) ==
    LET i == CHOOSE j \in DOMAIN remapped_commands : remapped_commands[j][1] = name
    IN remapped_commands[i][2]

-----------------------------------------------------------------------------
(* Construction: __init__, _inspect_commands, _contribute_commands *)

Handler(kind, attr) == [kind |-> kind, attr |-> attr]
Entry(handler, doc) == [handler |-> handler, doc |-> doc]

\* cmds[key] = entry
Put(cmds, key, entry) ==
    [k \in (DOMAIN cmds) \cup {key} |-> IF k = key THEN entry ELSE cmds[k]]

\* name.startswith("_")
startswith_underscore(name) ==
    Len(Codes[name]) >= 1 /\ Codes[name][1] = Underscore

\* str.strip() on a text of atoms: blanks at both ends go.
RECURSIVE strip(_)
strip(text) ==
    IF text = <<>> THEN <<>>
    ELSE IF Head(text) = SP THEN strip(Tail(text))
    ELSE IF text[Len(text)] = SP THEN strip(SubSeq(text, 1, Len(text) - 1))
    ELSE text

\* (getattr(attr, "__doc__", "") or "").strip()
DocOf(attr) == strip(IF attr.has_doc THEN attr.doc ELSE <<>>)

\* The test that makes the loop `continue`: not callable(attr) and name in
\* self.excluded_commands.
SkipsMember(name) ==
    ~redis.attrs[name].callable /\ name \in excluded_commands

\* The loop over dir(self.redis): the table it leaves.
InspectMembers ==
    [name \in { n \in DOMAIN redis.attrs :
                    ~startswith_underscore(n) /\ ~SkipsMember(n) }
        |-> Entry(Handler("redis", name), DocOf(redis.attrs[name]))]

\* self.commands[new] = self.commands[old], on a table where old is a key.
RemapStep_DropsDoc(cmds, new, old) ==
    Put(cmds, new, Entry(cmds[old].handler, <<>>))

RemapStep(cmds, new, old) == Put(cmds, new, cmds[old])

\* The loop over self.remapped_commands.items(), from pair i on: a missing
\* old raises KeyError(old) out of the loop.
RECURSIVE ApplyRemap(_, _)
ApplyRemap(cmds, i) ==
    IF i > Len(remapped_commands) THEN [raised |-> NoExc, commands |-> cmds]
    ELSE LET new == remapped_commands[i][1]
             old == remapped_commands[i][2]
         IN IF old \notin DOMAIN cmds
            THEN [raised |-> Exc("KeyError", old), commands |-> cmds]
            ELSE ApplyRemap(RemapStep(cmds, new, old), i + 1)

_inspect_commands == ApplyRemap(InspectMembers, 1)

HelpHandler == Handler("builtin", "_cmd_help")

_contribute_commands(cmds) == Put(cmds, "help", Entry(HelpHandler, <<"Help!">>))

-----------------------------------------------------------------------------
(* Requests and responses *)

\* A request: its method and the form's `cmd` field (has_cmd = FALSE: the
\* field is missing and form.get("cmd") is None).
Request(method, has_cmd, cmd) == [method |-> method, has_cmd |-> has_cmd, cmd |-> cmd]
NoRequest == Request("NONE", FALSE, <<>>)

TemplateResponse(template, error, result) ==
    [template |-> template, error |-> error, result |-> result]
NoResponse == TemplateResponse("", "", NoValue)

\* RedisCLIView._error
_error(msg) == TemplateResponse("admin/rediscli/error.html", msg, NoValue)

\* " ".join(tokens)
RECURSIVE Unwords(_)
Unwords(tokens) ==
    IF Len(tokens) = 0 THEN <<>>
    ELSE IF Len(tokens) = 1 THEN <<tokens[1]>>
    ELSE <<tokens[1], SP>> \o Unwords(Tail(tokens))

TokenSeqs == UNION { [1..n -> Words] : n \in 1..MaxTokens }

\* Lines that are not words joined by one blank each: empty, blank, an
\* unterminated quote, a quoted argument with a blank in it, an empty quoted
\* token, blanks around and between the words.
SpecialLines ==
    { <<>>,
      <<SP>>,
      <<SP, SP>>,
      <<DQ, "del">>,
      <<"del", SP, DQ, "k1", SP, "k1", DQ>>,
      <<DQ, DQ>>,
      <<SP, "del", SP, SP, "k1", SP>>,
      <<"de", DQ, "l", DQ, SP, "k1">> }

Lines == { Unwords(t) : t \in TokenSeqs } \cup SpecialLines

Requests ==
    { Request("GET", FALSE, <<>>), Request("POST", FALSE, <<>>) }
    \cup { Request("POST", TRUE, line) : line \in Lines }

-----------------------------------------------------------------------------
(* _parse_cmd: shlex.split in POSIX mode over blanks and double quotes *)

Returned(value) == [raised |-> NoExc, value |-> value]
Raised(e) == [raised |-> e, value |-> NoValue]

\* state "ws": between tokens; "a": in a word; "q": inside double quotes.
RECURSIVE Lex(_, _, _, _, _)
Lex(line, i, state, token, parts) ==
    IF i > Len(line)
    THEN IF state = "q" THEN [raised |-> Exc("ValueError", "No closing quotation"),
                              parts |-> <<>>]
         ELSE IF state = "a" THEN [raised |-> NoExc, parts |-> Append(parts, token)]
         ELSE [raised |-> NoExc, parts |-> parts]
    ELSE LET c == line[i]
         IN IF state = "ws"
            THEN IF c = SP THEN Lex(line, i + 1, "ws", "", parts)
                 ELSE IF c = DQ THEN Lex(line, i + 1, "q", "", parts)
                 ELSE Lex(line, i + 1, "a", c, parts)
            ELSE IF state = "a"
            THEN IF c = SP THEN Lex(line, i + 1, "ws", "", Append(parts, token))
                 ELSE IF c = DQ THEN Lex(line, i + 1, "q", token, parts)
                 ELSE Lex(line, i + 1, "a", token \o c, parts)
            ELSE IF c = DQ THEN Lex(line, i + 1, "a", token, parts)
                 ELSE Lex(line, i + 1, "q", token \o c, parts)

\* RedisCLIView._parse_cmd
_parse_cmd(cmd) == Lex(cmd, 1, "ws", "", <<>>)

-----------------------------------------------------------------------------
(* _cmd_help *)

\* a < b in Python's order on str: by code points, a proper prefix first.
LexLess(a, b) ==
    LET ca == Codes[a]
        cb == Codes[b]
    IN \E i \in 1..(Len(cb)) :
          /\ i <= Len(ca) + 1
          /\ \A j \in 1..(i - 1) : ca[j] = cb[j]
          /\ (i = Len(ca) + 1 \/ ca[i] < cb[i])

sorted_Descending(names) ==
    LET RECURSIVE Sel(_)
        Sel(S) == IF S = {} THEN <<>>
                  ELSE LET m == CHOOSE x \in S : \A y \in S \ {x} : LexLess(y, x)
                       IN <<m>> \o Sel(S \ {m})
    IN Sel(names)

\* sorted(names): ascending, smallest first.
sorted(names) ==
    LET RECURSIVE Sel(_)
        Sel(S) == IF S = {} THEN <<>>
                  ELSE LET m == CHOOSE x \in S : \A y \in S \ {x} : LexLess(x, y)
                       IN <<m>> \o Sel(S \ {m})
    IN Sel(names)

\* sep.join(items), as a text of atoms
RECURSIVE join(_, _)
join(sep, items) ==
    IF Len(items) = 0 THEN <<>>
    ELSE IF Len(items) = 1 THEN <<items[1]>>
    ELSE <<items[1], sep>> \o join(sep, Tail(items))

HelpPrefix == <<"Usage: help <command>.", "\n", "List of supported commands: ">>

\* RedisCLIView._cmd_help(*args)
_cmd_help(args) ==
    IF args = <<>>
    THEN Returned(TextWrapper(HelpPrefix \o join(", ", sorted(DOMAIN commands))))
    ELSE LET cmd == args[1]
         IN IF cmd \notin DOMAIN commands
            THEN Raised(Exc("KeyError", "Invalid command."))
            ELSE LET help == commands[cmd].doc
                 IN IF help = <<>>
                    THEN Returned(TextWrapper(<<"Command does not have any help.">>))
                    ELSE Returned(TextWrapper(help))

-----------------------------------------------------------------------------
(* _execute_command and the hooks *)

\* What a store operation, a hook can do when called: the environment's choice.
OpOutcomes ==
    { Returned(Value("int", <<"1">>)),
      Returned(Value("str", <<"OK">>)),
      Raised(Exc("ResponseError", "boom")) }

Oracles ==
    [ before : {"ok", "raise"},
      can_use : {"ok", "raise"},
      op : OpOutcomes,
      after : {"ok", "raise"} ]

NoHandler == Handler("none", "")

\* One entry of the log: a hook call or a call of a table entry's handler.
Event(ev, name, args, handler, raised, value) ==
    [ev |-> ev, name |-> name, args |-> args, handler |-> handler,
     raised |-> raised, value |-> value]

\* handler(*args): the built-in runs _cmd_help, a store method does what the
\* store decides, an attribute that is not callable raises TypeError before
\* anything is called.
Invoke_DropsFirstArg(handler, args, op) ==
    LET r == IF handler.kind = "builtin" THEN _cmd_help(Tail(args)) ELSE op
    IN [events |-> <<Event("call", handler.attr, Tail(args), handler, r.raised, r.value)>>,
        raised |-> r.raised, value |-> r.value]

Invoke(handler, args, op) ==
    IF handler.kind = "redis" /\ ~redis.attrs[handler.attr].callable
    THEN [events |-> <<>>,
          raised |-> Exc("TypeError", "'" \o redis.attrs[handler.attr].type_name
                                          \o "' object is not callable"),
          value |-> NoValue]
    ELSE LET r == IF handler.kind = "builtin" THEN _cmd_help(args) ELSE op
         IN [events |-> <<Event("call", handler.attr, args, handler, r.raised, r.value)>>,
             raised |-> r.raised, value |-> r.value]

\* The name looked up: new_cmd = self.remapped_commands.get(name);
\* if new_cmd: name = new_cmd
Resolve_NoRemap(name) == name

Resolve(name) ==
    LET new_cmd == IF name \in RemapKeys THEN RemapGet(name) ELSE ""
    IN IF new_cmd # "" THEN new_cmd ELSE name

\* The table after `handler, _ = self.commands[name]`: a read.
TableAfterLookup_Pops(cmds, name) == [k \in (DOMAIN cmds) \ {name} |-> cmds[k]]

TableAfterLookup(cmds, name) == cmds

\* RedisCLIView._execute_command
_execute_command(name, args, op) ==
    LET resolved == Resolve(name)
    IN IF resolved \notin DOMAIN commands
       THEN [events |-> <<>>, raised |-> Exc("KeyError", "Invalid command."),
             value |-> NoValue, commands |-> commands]
       ELSE LET r == Invoke(commands[resolved].handler, args, op)
            IN [events |-> r.events, raised |-> r.raised, value |-> r.value,
                commands |-> TableAfterLookup(commands, resolved)]

\* can_use_command: the default returns True; the override refuses the names
\* in `denied`.
can_use_command(name, args) == name \notin denied

Bool(b) == Value("bool", IF b THEN <<"True">> ELSE <<"False">>)

-----------------------------------------------------------------------------
(* index_page *)

\* What serving one request did.
Out(events, e, resp, cmds) ==
    [log |-> events, caught |-> e, response |-> resp, commands |-> cmds]

\* except Exception as e: msg = f"CLI: {e}"; return await self._error(request, msg)
Except(events, e, cmds) == Out(events, e, _error("CLI: " \o Str(e)), cmds)

\* result = await self._execute_command(...); await self.after_execution(...);
\* return the response template with the result.
Execute_AfterAlways(cmd_name, cmd_args, oracle, events) ==
    LET r == _execute_command(cmd_name, cmd_args, oracle.op)
        ev2 == events \o r.events
                 \o <<Event("after_execution", cmd_name, cmd_args, NoHandler, NoExc, r.value)>>
    IN IF r.raised # NoExc THEN Except(ev2, r.raised, r.commands)
       ELSE Out(ev2, NoExc,
                TemplateResponse("admin/rediscli/response.html", "", r.value), r.commands)

Execute(cmd_name, cmd_args, oracle, events) ==
    LET r == _execute_command(cmd_name, cmd_args, oracle.op)
        ev1 == events \o r.events
    IN IF r.raised # NoExc THEN Except(ev1, r.raised, r.commands)
       ELSE LET after == IF oracle.after = "raise"
                         THEN Exc("RuntimeError", "after_execution failed") ELSE NoExc
                ev2 == Append(ev1, Event("after_execution", cmd_name, cmd_args,
                                         NoHandler, after, r.value))
            IN IF after # NoExc THEN Except(ev2, after, r.commands)
               ELSE Out(ev2, NoExc,
                        TemplateResponse("admin/rediscli/response.html", "", r.value),
                        r.commands)

\* if not await self.can_use_command(...): return the error; else go on.
CheckPermission_Ignored(cmd_name, cmd_args, oracle, events) ==
    IF oracle.can_use = "raise"
    THEN LET e == Exc("RuntimeError", "can_use_command failed")
         IN Except(Append(events, Event("can_use_command", cmd_name, cmd_args,
                                        NoHandler, e, NoValue)), e, commands)
    ELSE LET allowed == can_use_command(cmd_name, cmd_args)
             ev1 == Append(events, Event("can_use_command", cmd_name, cmd_args,
                                         NoHandler, NoExc, Bool(allowed)))
         IN Execute(cmd_name, cmd_args, oracle, ev1)

CheckPermission(cmd_name, cmd_args, oracle, events) ==
    IF oracle.can_use = "raise"
    THEN LET e == Exc("RuntimeError", "can_use_command failed")
         IN Except(Append(events, Event("can_use_command", cmd_name, cmd_args,
                                        NoHandler, e, NoValue)), e, commands)
    ELSE LET allowed == can_use_command(cmd_name, cmd_args)
             ev1 == Append(events, Event("can_use_command", cmd_name, cmd_args,
                                         NoHandler, NoExc, Bool(allowed)))
         IN IF ~allowed
            THEN Out(ev1, NoExc, _error("CLI: Command is not allowed."), commands)
            ELSE Execute(cmd_name, cmd_args, oracle, ev1)

\* await self.before_execution(request, cmd_name, cmd_args), then the rest.
RunCommand(cmd_name, cmd_args, oracle) ==
    LET before == IF oracle.before = "raise"
                  THEN Exc("RuntimeError", "before_execution failed") ELSE NoExc
        ev1 == <<Event("before_execution", cmd_name, cmd_args, NoHandler, before, NoValue)>>
    IN IF before # NoExc THEN Except(ev1, before, commands)
       ELSE CheckPermission(cmd_name, cmd_args, oracle, ev1)

\* `not cmd` for cmd = form.get("cmd"): None or the empty string.
IsFalsy_OnlyNone(req) == ~req.has_cmd

IsFalsy(req) == ~req.has_cmd \/ req.cmd = <<>>

\* The body of index_page for one request and one choice of the environment.
ServeRequest(req, oracle) ==
    IF req.method = "GET"
    THEN Out(<<>>, NoExc,
             TemplateResponse("sqladmin/rediscli/index.html", "", NoValue), commands)
    ELSE IF IsFalsy(req)
    THEN Out(<<>>, NoExc, _error("CLI: Empty command."), commands)
    ELSE LET p == _parse_cmd(req.cmd)
         IN IF p.raised # NoExc THEN Except(<<>>, p.raised, commands)
            ELSE IF p.parts = <<>>
            THEN Out(<<>>, NoExc, _error("CLI: Failed to parse command."), commands)
            ELSE RunCommand(Head(p.parts), Tail(p.parts), oracle)

Init ==
    /\ redis \in Stores
    /\ remapped_commands \in RemapTables
    /\ excluded_commands \in ExclusionSets
    /\ denied \in DeniedSets
    /\ commands = <<>>
    /\ pc = "new"
    /\ init_error = NoExc
    /\ request = NoRequest
    /\ log = <<>>
    /\ caught = NoExc
    /\ response = NoResponse

\* RedisCLIView.__init__
init__ ==
    /\ pc = "new"
    /\ IF ~redis.provided
       THEN /\ init_error' = Exc("ValueError", "Redis connection is not provided.")
            /\ commands' = commands
            /\ pc' = "failed"
       ELSE LET r == _inspect_commands
            IN IF r.raised # NoExc
               THEN /\ init_error' = r.raised
                    /\ commands' = r.commands
                    /\ pc' = "failed"
               ELSE /\ init_error' = NoExc
                    /\ commands' = _contribute_commands(r.commands)
                    /\ pc' = "idle"
    /\ UNCHANGED <<redis, remapped_commands, excluded_commands, denied,
                   request, log, caught, response>>

\* The framework routes a request to the view.
Arrive ==
    /\ pc = "idle"
    /\ \E req \in Requests : request' = req
    /\ pc' = "arrived"
    /\ UNCHANGED <<redis, remapped_commands, excluded_commands, denied, commands,
                   init_error, log, caught, response>>

\* RedisCLIView.index_page, from the request to the response it returns.
index_page ==
    /\ pc = "arrived"
    /\ \E oracle \in Oracles :
          LET out == ServeRequest(request, oracle)
          IN /\ log' = out.log
             /\ caught' = out.caught
             /\ response' = out.response
             /\ commands' = out.commands
    /\ pc' = "done"
    /\ UNCHANGED <<redis, remapped_commands, excluded_commands, denied,
                   init_error, request>>

\* The response goes out; the request's locals are gone.
Deliver ==
    /\ pc = "done"
    /\ pc' = "idle"
    /\ request' = NoRequest
    /\ log' = <<>>
    /\ caught' = NoExc
    /\ response' = NoResponse
    /\ UNCHANGED <<redis, remapped_commands, excluded_commands, denied, commands,
                   init_error>>

Next == init__ \/ Arrive \/ index_page \/ Deliver

Spec == Init /\ [][Next]_vars

-----------------------------------------------------------------------------
(* Properties *)

Serving == pc \in {"idle", "arrived", "done"}

ErrorTemplate == "admin/rediscli/error.html"

\* The positions of the log that hold an event of one kind.
At(ev) == { i \in DOMAIN log : log[i].ev = ev }

\* The request went through the pre-hook and the permission hook let it pass.
Permitted ==
    /\ \E i \in At("before_execution") : log[i].raised = NoExc
    /\ \E i \in At("can_use_command") : log[i].value = Bool(TRUE)

\* C1: a submit request that the permission hook refused (it returned false)
\* invoked no operation and no post-hook, and got the error fragment.
C1_DeniedNeverInvokes ==
    (pc = "done" /\ \E i \in At("can_use_command") : log[i].value = Bool(FALSE))
    => /\ At("call") = {}
       /\ At("after_execution") = {}
       /\ response.template = ErrorTemplate
       /\ response.result = NoValue

C1_Witness ==
    /\ pc = "done"
    /\ request = Request("POST", TRUE, <<"delete", SP, "k1">>)
    /\ \E i \in At("can_use_command") : log[i].value = Bool(FALSE)
    /\ response.template = ErrorTemplate

\* C2: whatever failed while serving a submit request, the response is the
\* error fragment whose message is "CLI: " followed by the message the error
\* was raised with.
C2_ErrorMessageIsPrefixPlusMessage ==
    (pc = "done" /\ caught # NoExc)
    => response = _error("CLI: " \o caught.arg)

\* C3: after construction the keys of the command table are exactly the
\* public callable members of the connection minus the exclusion set, plus
\* help, plus the remap aliases.
C3_KeysAreCallablesMinusExcluded ==
    Serving =>
        DOMAIN commands =
            ({ n \in DOMAIN redis.attrs :
                   ~startswith_underscore(n) /\ redis.attrs[n].callable }
               \ excluded_commands)
            \cup {"help"} \cup RemapKeys

\* C4: a permitted submit request whose first token is a remap alias invokes
\* the handler the table holds for the canonical name, once, with the
\* remaining tokens in order, and invokes nothing else.
C4_AliasInvokesCanonical ==
    LET p == _parse_cmd(request.cmd)
    IN (/\ pc = "done"
        /\ request.method = "POST" /\ request.has_cmd
        /\ p.raised = NoExc /\ p.parts # <<>>
        /\ Head(p.parts) \in RemapKeys
        /\ Permitted)
       => /\ Cardinality(At("call")) = 1
          /\ \A i \in At("call") :
                /\ log[i].handler = commands[RemapGet(Head(p.parts))].handler
                /\ log[i].args = Tail(p.parts)

C4_Witness ==
    /\ pc = "done"
    /\ remapped_commands = DefaultRemap
    /\ request = Request("POST", TRUE, <<"del", SP, "k1", SP, "help">>)
    /\ \E i \in At("call") :
          log[i].handler = Handler("redis", "delete") /\ log[i].args = <<"k1", "help">>

\* C5: a submit request with a missing or empty cmd field gets exactly
\* "CLI: Empty command.", one whose cmd has no token gets exactly
\* "CLI: Failed to parse command.", and neither calls a hook or an operation.
C5_EmptyAndBlank ==
    (pc = "done" /\ request.method = "POST")
    => /\ (~request.has_cmd \/ request.cmd = <<>>)
            => (response = _error("CLI: Empty command.") /\ log = <<>>)
       /\ (/\ request.has_cmd /\ request.cmd # <<>>
           /\ _parse_cmd(request.cmd) = [raised |-> NoExc, parts |-> <<>>])
            => (response = _error("CLI: Failed to parse command.") /\ log = <<>>)

C5_Witness ==
    /\ pc = "done"
    /\ request = Request("POST", TRUE, <<>>)
    /\ response = _error("CLI: Empty command.")

C5_WitnessBlank ==
    /\ pc = "done"
    /\ request = Request("POST", TRUE, <<SP, SP>>)
    /\ response = _error("CLI: Failed to parse command.")

\* C6: help called with no argument returns the fixed prefix followed by the
\* table's keys, each once, in ascending order, separated by ", ".
C6_HelpListsSortedKeys ==
    \A i \in At("call") :
        (log[i].handler = HelpHandler /\ log[i].args = <<>>)
        => LET text == log[i].value.value
               n == Cardinality(DOMAIN commands)
               list == SubSeq(text, Len(HelpPrefix) + 1, Len(text))
           IN /\ log[i].raised = NoExc
              /\ log[i].value.type_name = "TextWrapper"
              /\ SubSeq(text, 1, Len(HelpPrefix)) = HelpPrefix
              /\ Len(list) = 2 * n - 1
              /\ \A k \in 1..(n - 1) : list[2 * k] = ", "
              /\ { list[2 * k - 1] : k \in 1..n } = DOMAIN commands
              /\ \A k \in 1..(n - 1) : LexLess(list[2 * k - 1], list[2 * k + 1])

C6_Witness ==
    /\ pc = "done"
    /\ request = Request("POST", TRUE, <<"help">>)
    /\ "del" \in DOMAIN commands
    /\ response.result.type_name = "TextWrapper"
    /\ \E i \in At("call") : log[i].handler = HelpHandler /\ log[i].value = response.result

\* A remap pair whose alias entry and canonical entry nothing rewrites after
\* the pair is applied.
Alias(i) == remapped_commands[i][1]
Canonical(i) == remapped_commands[i][2]
Settled(i) ==
    /\ Alias(i) # "help"
    /\ Canonical(i) # "help"
    /\ \A j \in DOMAIN remapped_commands :
          j > i => Alias(j) \notin {Alias(i), Canonical(i)}

\* C7 as stated: a target that reflective enumeration did not register makes
\* construction fail; after a successful construction every target is a key
\* and every alias entry equals its canonical entry.
C7_Original ==
    /\ (/\ pc # "new" /\ redis.provided
        /\ \E i \in DOMAIN remapped_commands : Canonical(i) \notin DOMAIN InspectMembers)
       => pc = "failed"
    /\ Serving =>
          \A i \in DOMAIN remapped_commands :
              /\ Canonical(i) \in DOMAIN commands
              /\ commands[Alias(i)] = commands[Canonical(i)]

\* C7 amended: a target that is not a key when its pair is applied (neither
\* registered by reflective enumeration nor the alias of an earlier pair)
\* makes construction fail, and no request is served; after a successful
\* construction every target is a key, and every alias entry equals its
\* canonical entry unless help or a later pair rewrote one of the two.
C7_Amended ==
    /\ (/\ pc # "new" /\ redis.provided
        /\ \E i \in DOMAIN remapped_commands :
              Canonical(i) \notin
                  (DOMAIN InspectMembers) \cup { Alias(j) : j \in 1..(i - 1) })
       => (pc = "failed" /\ init_error # NoExc)
    /\ pc = "failed" => (request = NoRequest /\ response = NoResponse)
    /\ Serving =>
          \A i \in DOMAIN remapped_commands :
              /\ Canonical(i) \in DOMAIN commands
              /\ Alias(i) \in DOMAIN commands
              /\ Settled(i) => commands[Alias(i)] = commands[Canonical(i)]

C7_Witness ==
    /\ pc = "idle"
    /\ remapped_commands = DefaultRemap
    /\ "del" \in DOMAIN commands
    /\ commands["del"] = commands["delete"]
    /\ commands["del"].handler = Handler("redis", "delete")

C7_WitnessFailed ==
    /\ pc = "failed"
    /\ remapped_commands = << <<"del", "unlink">> >>
    /\ init_error = Exc("KeyError", "unlink")

\* C8: the calls of one submit request come in the order pre-hook, permission
\* check, operation, post-hook, each at most once; the operation is called
\* only after both hooks let the request pass; the post-hook is called only
\* after the operation returned, with the pre-hook's name and arguments and
\* the operation's result.
Rank(ev) ==
    IF ev = "before_execution" THEN 1
    ELSE IF ev = "can_use_command" THEN 2
    ELSE IF ev = "call" THEN 3
    ELSE 4

C8_HookOrder ==
    pc = "done" =>
        /\ \A i, j \in DOMAIN log : i < j => Rank(log[i].ev) < Rank(log[j].ev)
        /\ At("can_use_command") # {} =>
              \E b \in At("before_execution") : log[b].raised = NoExc
        /\ At("call") # {} => Permitted
        /\ \A a \in At("after_execution") :
              /\ \E c \in At("call") :
                    /\ log[c].raised = NoExc
                    /\ log[c].value = log[a].value
                    /\ log[c].args = log[a].args
              /\ \E b \in At("before_execution") :
                    log[b].name = log[a].name /\ log[b].args = log[a].args

C8_Witness ==
    /\ pc = "done"
    /\ Len(log) = 4
    /\ log[3].ev = "call" /\ log[3].handler.kind = "redis"
    /\ log[4].ev = "after_execution" /\ log[4].raised = NoExc
    /\ log[4].name = "del"
    /\ response.result = log[3].value

C10_DeniedNameNeverInvoked ==
    \A i \in At("call") :
        log[i].handler.kind = "redis" => log[i].handler.attr \notin denied

=============================================================================
